---- MODULE Spec2Model ----
(***************************************************************************)
(* Model of the instance orchestrator of docker-instance-manager:         *)
(* core/views.py (request handlers), core/tasks.py (Celery tasks),        *)
(* core/services/port_manager.py (port allocation),                       *)
(* core/services/docker_manager.py (container driver), core/models.py     *)
(* (rows) and core/signals.py (post_delete cleanup).                      *)
(*                                                                         *)
(* Every handler and task works on an in-memory copy of the Instance row  *)
(* (Instance.objects.get / get_object_or_404) and instance.save() writes  *)
(* every field of that copy back (UPDATE, or INSERT when the row is gone).*)
(* A step of the model is one block of a handler between two accesses to  *)
(* shared state by other workers: a database read, or an engine call with  *)
(* the save that follows it.                                               *)
(***************************************************************************)
EXTENDS Integers, Sequences, FiniteSets, TLC

\* ------------------------------------------------------------------ bounds
\* Instance rows ever created (ids 1..MaxInstances, AutoField).
MaxInstances == 2
\* Lifecycle commands ever enqueued (create, stop, restart, delete).
MaxTasks == 2
\* Number of ports in the configured range.
RangeSize == 2
\* Exceptions the environment raises in one run of the specifications that
\* inject them (engine unreachable when the driver is built, a failing audit
\* write, a failing status read).
MaxFaults == 1

\* ------------------------------------------------------- program constants
PORT_RANGE_START == 10000
PORT_RANGE_END == PORT_RANGE_START + RangeSize - 1
max_attempts == 100
max_retries == 3
max_instances == 5

Users == {"alice"}
Templates == {"jupyter", "vscode"}
Ids == 1..MaxInstances

\* Template.default_ports: the logical service names, in dict order.
default_ports(tpl) == IF tpl = "jupyter" THEN <<"web">> ELSE <<"web", "ssh">>
\* Template.volume_mounts: logical volume name -> container path.
volume_mounts(tpl) ==
    IF tpl = "jupyter" THEN [v \in {"work", "data"} |-> IF v = "work" THEN "/home/work" ELSE "/data"]
    ELSE [v \in {} |-> ""]

\* Template.environment_vars: the template's default environment.
template_environment_vars(tpl) ==
    IF tpl = "jupyter" THEN [k \in {"A", "B"} |-> IF k = "A" THEN "1" ELSE "2"]
    ELSE [k \in {} |-> ""]
\* The container paths of Template.volume_mounts in the order of the dict.
mount_paths(tpl) ==
    IF tpl = "jupyter" THEN <<volume_mounts(tpl)["work"], volume_mounts(tpl)["data"]>>
    ELSE << >>

None == << >>
EmptyMap == [n \in {} |-> PORT_RANGE_START]
EmptyEnv == [k \in {} |-> ""]
Values(m) == {m[n] : n \in DOMAIN m}
Put(m, n, p) == [x \in DOMAIN m \cup {n} |-> IF x = n THEN p ELSE m[x]]

\* ------------------------------------------------------------------ rows
\* An absent row of the Instance table.
NoRow == [status |-> "absent"]
\* Instance(user, template, name, status='pending') with the field defaults.
NewInstance(u, tpl) ==
    [user |-> u, template |-> tpl, container_id |-> None, host_ports |-> EmptyMap,
     status |-> "pending", error_message |-> "", volume_name |-> None,
     environment_vars |-> EmptyEnv]

VARIABLES
    db,        \* Instance table: id -> row or NoRow
    nextId,    \* next AutoField value of the Instance table
    cont,      \* engine: container name (one per instance id) -> state
    vols,      \* engine: the volumes that exist
    audit,     \* AuditLog table: a set of rows
    tasks,     \* the Celery tasks enqueued so far, with each worker's locals
    faults,    \* exceptions the environment may still raise
    room,      \* how many tasks a run may enqueue
    response,  \* the JsonResponse of the last status request
    profile    \* Profile table: user -> max_instances

vars == <<db, nextId, cont, vols, audit, tasks, faults, room, response, profile>>

TaskIds == DOMAIN tasks
Active == {"running", "pending"}

\* ------------------------------------------------------- port_manager.py
\* A held set that also counts the ports of stopped and error rows.
UsedByAnyRow ==
    UNION {Values(db[i].host_ports) : i \in {j \in Ids : db[j] # [status |-> "absent"]}}

\* PortManager.get_used_ports: ports of the rows that are running or pending.
get_used_ports ==
    UNION {Values(db[i].host_ports) : i \in {j \in Ids : db[j].status \in Active}}

\* PortManager.check_port_availability(count) (lines 95-97).
check_port_availability(count) ==
    (PORT_RANGE_END - PORT_RANGE_START + 1) - Cardinality(get_used_ports) >= count

\* A draw that can overshoot the range by one (randint(start, end + 1)).
WideDraws == PORT_RANGE_START..(PORT_RANGE_END + 1)

\* random.randint(start, end): the values one draw can give.
RandomDraws == PORT_RANGE_START..PORT_RANGE_END
\* range(start, end + 1) of the fallback path.
FullRange == PORT_RANGE_START..PORT_RANGE_END

Ok(ports) == [ok |-> TRUE, ports |-> ports, error |-> ""]
Raise(e) == [ok |-> FALSE, ports |-> EmptyMap, error |-> e]

\* An acceptance test that forgets the ports already chosen in this call.
AcceptedUnheld(port, used_ports, allocated_ports) == port \notin used_ports

\* The draw loop's acceptance test (line 57).
Accepted(port, used_ports, allocated_ports) ==
    port \notin used_ports /\ port \notin Values(allocated_ports)

\* An exhaustion test that is off by one (>= written as > after adding 1).
ExhaustedLate(used_ports, port_mapping) ==
    Cardinality(used_ports) + Len(port_mapping) > PORT_RANGE_END - PORT_RANGE_START + 2

\* The fallback's exhaustion test (line 63).
Exhausted(used_ports, port_mapping) ==
    Cardinality(used_ports) + Len(port_mapping) > PORT_RANGE_END - PORT_RANGE_START + 1

\* The fallback's candidate list (lines 69-70).
remaining_ports(used_ports, allocated_ports) ==
    (FullRange \ used_ports) \ Values(allocated_ports)

\* allocate_ports from service k on: every outcome the random draws allow.
\* A service takes the fallback path when all max_attempts draws are rejected,
\* which needs a port of the range that the acceptance test rejects.
\* remaining_ports[0] on an empty list raises IndexError.
RECURSIVE AllocateFrom(_, _, _, _)
AllocateFrom(port_mapping, k, used_ports, allocated_ports) ==
    IF k > Len(port_mapping) THEN {Ok(allocated_ports)}
    ELSE
      LET name == port_mapping[k]
          good == {p \in RandomDraws : Accepted(p, used_ports, allocated_ports)}
          bad == RandomDraws \ good
          byDraw ==
            IF max_attempts > 0
            THEN UNION {AllocateFrom(port_mapping, k + 1, used_ports,
                                     Put(allocated_ports, name, p)) : p \in good}
            ELSE {}
          byFallback ==
            IF max_attempts > 0 /\ bad = {} THEN {}
            ELSE IF Exhausted(used_ports, port_mapping) THEN {Raise("ValueError")}
            ELSE IF remaining_ports(used_ports, allocated_ports) = {}
                 THEN {Raise("IndexError")}
            ELSE UNION {AllocateFrom(port_mapping, k + 1, used_ports,
                                     Put(allocated_ports, name, p)) :
                        p \in remaining_ports(used_ports, allocated_ports)}
      IN byDraw \cup byFallback

\* PortManager.allocate_ports(port_mapping) given the used ports it read.
allocate_ports(port_mapping, used_ports) ==
    AllocateFrom(port_mapping, 1, used_ports, EmptyMap)

\* ------------------------------------------------------ docker_manager.py
\* A lookup that never misses its target.
AlwaysFound(present) == FALSE
\* containers.get / volumes.get raise NotFound: the target is not in the engine.
NotFound(present) == ~present

\* An update in which the keys already present keep their values.
UpdateKeepsOld(d, other) ==
    [k \in DOMAIN d \cup DOMAIN other |-> IF k \in DOMAIN d THEN d[k] ELSE other[k]]
\* dict.update(other): the keys of other are set to other's values.
Update(d, other) ==
    [k \in DOMAIN d \cup DOMAIN other |-> IF k \in DOMAIN other THEN other[k] ELSE d[k]]

\* start_container, lines 92-96: the merged environment.
env_vars(template_env, environment_vars) ==
    LET fromTemplate == IF DOMAIN template_env # {}
                        THEN Update(EmptyEnv, template_env) ELSE EmptyEnv
    IN IF DOMAIN environment_vars # {}
       THEN Update(fromTemplate, environment_vars) ELSE fromTemplate
\* Line 99: the "k=v" entries handed to the engine, as pairs (none when empty).
env_list(env) == {<<k, env[k]>> : k \in DOMAIN env}

\* Lines 108-110 from path k on: volumes[volume_name] = {bind, mode} for each
\* container path in turn.
RECURSIVE BindFrom(_, _, _, _)
BindFrom(volumes, volume_name, paths, k) ==
    IF k > Len(paths) THEN volumes
    ELSE BindFrom([x \in DOMAIN volumes \cup {volume_name} |->
                     IF x = volume_name THEN [bind |-> paths[k], mode |-> "rw"]
                     ELSE volumes[x]],
                  volume_name, paths, k + 1)
\* Lines 106-110: the volumes argument (the empty map stands for None).
volume_binds(volume_name, paths) ==
    IF volume_name # None /\ paths # << >>
    THEN BindFrom(<< >>, volume_name, paths, 1)
    ELSE << >>

\* The environment and volumes arguments of client.containers.run (line 114).
containers_run(tpl, environment_vars, volume_name) ==
    [environment |-> env_list(env_vars(template_environment_vars(tpl), environment_vars)),
     volumes |-> volume_binds(volume_name, mount_paths(tpl))]
\* No container started in this attempt.
NoRun == [environment |-> {}, volumes |-> << >>]

\* ------------------------------------------------------------- naming
\* f"{username}_{template.name}_{instance.id}_data"
VolumeName(u, tpl, i) == <<u, tpl, i, "data">>
\* The engine id of the container named f"{username}_{template.name}_{id}".
ContainerId(i) == <<i>>

\* ------------------------------------------------------------- tasks
\* A task as enqueued by .delay(). Beside the worker's position (pc) and its
\* copy of the row (local), the record keeps what the current attempt has
\* done: the row as it was read (loaded), the used ports allocate_ports read
\* and what it returned (used_ports, alloc, host_ports), the engine calls made
\* and those that returned an error (calls, failed), the arguments the
\* container was started with (run). vpc/vlocal are the
\* position and the row copy of the request handler that enqueued the task.
NewTask(kind, i) ==
    [kind |-> kind, inst |-> i, pc |-> "queued", retries |-> 0, result |-> "",
     loaded |-> NoRow, local |-> NoRow, used_ports |-> {}, host_ports |-> EmptyMap,
     alloc |-> "", calls |-> {}, failed |-> {}, run |-> NoRun,
     user_id |-> "", delete_volume |-> FALSE,
     vpc |-> "done", vlocal |-> NoRow]

\* The Profile rows as the post_save signal creates them: max_instances = 5.
DefaultProfile == [u \in Users |-> [max_instances |-> max_instances]]

\* No status request answered yet.
NoResponse == [inst |-> 0, status |-> "", error_message |-> ""]

Start(f, r) ==
    /\ db = [i \in Ids |-> NoRow]
    /\ nextId = 1
    /\ cont = [i \in Ids |-> "none"]
    /\ vols = {}
    /\ audit = {}
    /\ tasks = << >>
    /\ faults = f
    /\ room = r
    /\ response = NoResponse
    /\ profile = DefaultProfile

\* No instance yet; the environment raises no exception.
Init == Start(0, MaxTasks)

\* ------------------------------------------------------------- helpers
SetTask(t, rec) == tasks' = [tasks EXCEPT ![t] = rec]
\* instance.save(): every field of the in-memory copy is written to the row
\* (an UPDATE, or an INSERT when the row is gone).
Save(i, row) == db' = [db EXCEPT ![i] = row]
\* The engine calls of this attempt and those that returned an error.
Call(T, name) == [T EXCEPT !.calls = @ \cup {name}]
FailedCall(T, name) == [T EXCEPT !.calls = @ \cup {name}, !.failed = @ \cup {name}]
\* return {...}: the task ends with its result.
Finish(T, res) == [T EXCEPT !.pc = "done", !.result = res]
\* The first step of an attempt: the row is read and the attempt's record reset.
Load(T, row, pc) ==
    [T EXCEPT !.pc = pc, !.loaded = row, !.local = row, !.used_ports = {},
              !.host_ports = EmptyMap, !.alloc = "", !.calls = {}, !.failed = {},
              !.run = NoRun]

\* Whether the environment raises in this step.
Faulty(fault) == IF fault THEN faults > 0 /\ faults' = faults - 1 ELSE faults' = faults

\* AuditLog.objects.create(...): the row task t appends in its current attempt.
AuditRow(t, u, action, i, tpl, details) ==
    [pk |-> <<t, tasks[t].retries>>, user |-> u, action |-> action,
     instance |-> i, template |-> tpl, details |-> details]

\* ------------------------------------------------------------- views.py
\* create_instance: the quota test on the user's running or pending rows.
QuotaReached(u) ==
    Cardinality({i \in Ids : db[i].status \in Active /\ db[i].user = u}) >= profile[u].max_instances

\* create_instance (POST): quota check, new pending row, create task enqueued.
create_instance(u, tpl) ==
    /\ nextId <= MaxInstances
    /\ Len(tasks) < room
    /\ ~QuotaReached(u)
    /\ db' = [db EXCEPT ![nextId] = NewInstance(u, tpl)]
    /\ nextId' = nextId + 1
    /\ tasks' = Append(tasks, NewTask("create", nextId))
    /\ UNCHANGED <<cont, vols, audit, faults, room, response, profile>>

\* stop_instance up to the enqueue: the row is loaded, its status tested and the
\* stop task enqueued; the handler's own save is still to come.
stop_instance(i) ==
    /\ Len(tasks) < room
    /\ db[i].status = "running"
    /\ tasks' = Append(tasks, [NewTask("stop", i) EXCEPT !.vpc = "saving", !.vlocal = db[i]])
    /\ UNCHANGED <<db, nextId, cont, vols, audit, faults, room, response, profile>>

\* restart_instance up to the enqueue.
restart_instance(i) ==
    /\ Len(tasks) < room
    /\ db[i].status \in {"running", "stopped"}
    /\ tasks' = Append(tasks, [NewTask("restart", i) EXCEPT !.vpc = "saving", !.vlocal = db[i]])
    /\ UNCHANGED <<db, nextId, cont, vols, audit, faults, room, response, profile>>

\* The rest of stop_instance / restart_instance: status = 'pending'; save().
view_save_pending(t) ==
    LET T == tasks[t] IN
    /\ T.vpc = "saving"
    /\ Save(T.inst, [T.vlocal EXCEPT !.status = "pending"])
    /\ SetTask(t, [T EXCEPT !.vpc = "done", !.vlocal = NoRow])
    /\ UNCHANGED <<nextId, cont, vols, audit, faults, room, response, profile>>

\* delete_instance (POST): the delete task is enqueued with the form's flag.
delete_instance(i, delete_volume) ==
    /\ Len(tasks) < room
    /\ db[i] # NoRow
    /\ tasks' = Append(tasks, [NewTask("delete", i) EXCEPT
                                  !.user_id = db[i].user, !.delete_volume = delete_volume])
    /\ UNCHANGED <<db, nextId, cont, vols, audit, faults, room, response, profile>>

\* ----------------------------------------------- tasks.py: create_instance_task
\* self.retry(exc=e, countdown=60): the task is sent again while the request's
\* retry count is below max_retries; beyond it Celery re-raises exc itself (not
\* MaxRetriesExceededError), so the handler of lines 103-108 is not entered.
retry(T) ==
    IF T.retries < max_retries
    THEN [T EXCEPT !.pc = "queued", !.retries = @ + 1]
    ELSE Finish(T, "raised")

\* Lines 25-26: the row is read into the worker's copy.
create_load(t) ==
    LET T == tasks[t] IN
    /\ T.kind = "create" /\ T.pc = "queued"
    /\ IF db[T.inst] = NoRow
       THEN SetTask(t, Finish(Load(T, NoRow, "queued"), "Instance not found"))
       ELSE SetTask(t, Load(T, db[T.inst], "ports"))
    /\ UNCHANGED <<db, nextId, cont, vols, audit, faults, room, response, profile>>

\* Line 50 (inside allocate_ports): the used ports are read from the table.
create_read_used(t) ==
    LET T == tasks[t] IN
    /\ T.kind = "create" /\ T.pc = "ports"
    /\ SetTask(t, [T EXCEPT !.pc = "alloc", !.used_ports = get_used_ports])
    /\ UNCHANGED <<db, nextId, cont, vols, audit, faults, room, response, profile>>

\* The worker's copy once allocate_ports returned (line 32).
AfterAllocate(local, host_ports) == [local EXCEPT !.host_ports = host_ports]

\* The worker's copy when allocate_ports raised ValueError (lines 35-36).
AfterValueError(local) ==
    [local EXCEPT !.status = "error", !.error_message = "Port allocation failed"]

\* A ValueError handler that hands the task to self.retry instead of returning.
RetryValueError(T) == retry(T)

\* The task after the ValueError handler saved the row: it returns (line 39).
ReturnValueError(T) == Finish(T, "ValueError")

\* Lines 30-39: the ports are drawn and saved, or the range is exhausted.
\* Any other exception of allocate_ports reaches the handler of line 98.
create_allocate(t) ==
    LET T == tasks[t] IN
    /\ T.kind = "create" /\ T.pc = "alloc"
    /\ \E out \in allocate_ports(default_ports(T.local.template), T.used_ports) :
         IF out.ok
         THEN /\ Save(T.inst, AfterAllocate(T.local, out.ports))
              /\ SetTask(t, [T EXCEPT !.pc = "volume", !.alloc = "ok",
                                      !.host_ports = out.ports,
                                      !.local = AfterAllocate(T.local, out.ports)])
         ELSE IF out.error = "ValueError"
         THEN /\ Save(T.inst, AfterValueError(T.local))
              /\ SetTask(t, ReturnValueError([T EXCEPT !.alloc = "ValueError",
                                                       !.local = AfterValueError(T.local)]))
         ELSE /\ SetTask(t, retry([T EXCEPT !.alloc = out.error]))
              /\ UNCHANGED db
    /\ UNCHANGED <<nextId, cont, vols, audit, faults, room, response, profile>>

\* The worker's copy when create_volume returned the name (line 50).
AfterVolume(local, volume_name) == [local EXCEPT !.volume_name = volume_name]

\* The worker's copy when create_volume failed (lines 54-55).
AfterVolumeError(local) ==
    [local EXCEPT !.status = "error", !.error_message = "Volume creation failed"]

\* A failed create_volume after which the task goes on to start the container.
ContinueAfterVolumeError(T) == [T EXCEPT !.pc = "start"]

\* The task after the failed create_volume was saved: it returns (line 58).
ReturnVolumeError(T) == Finish(T, "Volume creation failed")

\* Lines 42-58: the driver is built (DockerManager() raises when the engine is
\* unreachable) and, for a template with volume mounts, the volume is created
\* and its name saved.
create_volume_step(t, fault) ==
    LET T == tasks[t]
        i == T.inst
        tpl == T.local.template
        volume_name == VolumeName(T.local.user, tpl, i)
    IN
    /\ T.kind = "create" /\ T.pc = "volume"
    /\ Faulty(fault)
    /\ IF fault
       THEN /\ SetTask(t, retry(T))
            /\ UNCHANGED <<db, vols>>
       ELSE IF DOMAIN volume_mounts(tpl) = {}
       THEN /\ SetTask(t, [T EXCEPT !.pc = "start"])
            /\ UNCHANGED <<db, vols>>
       ELSE \E created \in BOOLEAN :
              IF created
              THEN /\ vols' = vols \cup {volume_name}
                   /\ Save(i, AfterVolume(T.local, volume_name))
                   /\ SetTask(t, [Call(T, "create_volume") EXCEPT
                                     !.pc = "start",
                                     !.local = AfterVolume(T.local, volume_name)])
              ELSE /\ vols' = vols
                   /\ Save(i, AfterVolumeError(T.local))
                   /\ SetTask(t, ReturnVolumeError(
                                   [FailedCall(T, "create_volume") EXCEPT
                                      !.local = AfterVolumeError(T.local)]))
    /\ UNCHANGED <<nextId, cont, audit, room, response, profile>>

\* The worker's copy when start_container returned an id (lines 72-74).
AfterStart(local, container_id) ==
    [local EXCEPT !.container_id = container_id, !.status = "running",
                  !.error_message = ""]

\* A failed start that gives the allocated ports back.
StartErrorReleases(local) ==
    [local EXCEPT !.status = "error", !.error_message = "Docker API error",
                  !.host_ports = EmptyMap]

\* The worker's copy when start_container failed (lines 88-89).
AfterStartError(local) ==
    [local EXCEPT !.status = "error", !.error_message = "Docker API error"]

\* A successful start that writes no audit row.
NoCreateAudit(t, local) == {}

\* The audit rows create appends after a successful start (lines 78-83).
CreateAudit(t, local) ==
    {AuditRow(t, local.user, "create", <<tasks[t].inst>>, None, "Started container")}

\* Lines 61-92: the container is started; on success the id and status are
\* saved and the audit row is written (a write that raises reaches the handler
\* of line 98), on failure the status becomes error. The engine refuses a
\* second container of the same name. The volume_name handed to start_container
\* is the one the attempt saved in its copy of the row (line 50), or None.
create_start(t, fault) ==
    LET T == tasks[t]
        i == T.inst
        R == [T EXCEPT !.run = containers_run(T.local.template,
                                              T.local.environment_vars,
                                              T.local.volume_name)]
    IN
    /\ T.kind = "create" /\ T.pc = "start"
    /\ Faulty(fault)
    /\ \E started \in BOOLEAN :
         IF started
         THEN /\ cont[i] = "none"
              /\ cont' = [cont EXCEPT ![i] = "running"]
              /\ Save(i, AfterStart(T.local, ContainerId(i)))
              /\ LET S == [Call(R, "start_container") EXCEPT
                              !.local = AfterStart(T.local, ContainerId(i))]
                 IN IF fault
                    THEN audit' = audit /\ SetTask(t, retry(S))
                    ELSE /\ audit' = audit \cup CreateAudit(t, S.local)
                         /\ SetTask(t, Finish(S, "success"))
         ELSE /\ ~fault
              /\ Save(i, AfterStartError(T.local))
              /\ SetTask(t, Finish([FailedCall(R, "start_container") EXCEPT
                                       !.local = AfterStartError(T.local)],
                                   "Docker API error"))
              /\ UNCHANGED <<cont, audit>>
    /\ UNCHANGED <<nextId, vols, room, response, profile>>

create_instance_task(t) ==
    \/ create_load(t)
    \/ create_read_used(t)
    \/ create_allocate(t)
    \/ create_volume_step(t, FALSE)
    \/ create_start(t, FALSE)

\* ----------------------------------------------- tasks.py: stop_instance_task
\* A test of line 128 that never finds the container id missing.
NeverMissing(row) == FALSE
\* The test of line 128 (and 180): the row has no container id.
NoContainerId(row) == row.container_id = None

\* Lines 126-129: the row is read; without a container id the task returns.
stop_load(t) ==
    LET T == tasks[t] IN
    /\ T.kind = "stop" /\ T.pc = "queued"
    /\ IF db[T.inst] = NoRow
       THEN SetTask(t, Finish(Load(T, NoRow, "queued"), "Instance not found"))
       ELSE IF NoContainerId(db[T.inst])
       THEN SetTask(t, Finish(Load(T, db[T.inst], "queued"), "No container ID found"))
       ELSE SetTask(t, Load(T, db[T.inst], "engine"))
    /\ UNCHANGED <<db, nextId, cont, vols, audit, faults, room, response, profile>>

\* The worker's copy when stop_container succeeded (line 135).
AfterStop(local) == [local EXCEPT !.status = "stopped"]
\* A failed stop that also forces the status to error.
StopErrorForcesStatus(local) ==
    [local EXCEPT !.status = "error", !.error_message = "Failed to stop container"]
\* The worker's copy when stop_container failed (line 149).
AfterStopError(local) == [local EXCEPT !.error_message = "Failed to stop container"]
\* The audit rows stop appends on success (lines 139-144).
StopAudit(t, local) ==
    {AuditRow(t, local.user, "stop", <<tasks[t].inst>>, None, "Stopped container")}
\* A failure branch that writes the stop audit row all the same.
AuditsFailedStop(t, local) == StopAudit(t, local)
\* The audit rows stop appends when stop_container failed (lines 148-152): none.
StopFailureAudit(t, local) == {}

\* Lines 131-160: the driver is built and the container stopped; the outcome is
\* saved. An exception (fault = "driver": DockerManager() raises; "audit": the
\* audit write raises) is turned into a failure result by the handler of line 158.
stop_engine(t, fault) ==
    LET T == tasks[t]
        i == T.inst
    IN
    /\ T.kind = "stop" /\ T.pc = "engine"
    /\ Faulty(fault # "none")
    /\ IF fault = "driver"
       THEN /\ SetTask(t, Finish(T, "exception"))
            /\ UNCHANGED <<db, cont, audit>>
       ELSE \E stopped \in BOOLEAN :
              IF stopped
              THEN /\ ~NotFound(cont[i] # "none")
                   /\ cont' = [cont EXCEPT ![i] = "exited"]
                   /\ Save(i, AfterStop(T.local))
                   /\ LET S == [Call(T, "stop_container") EXCEPT
                                   !.local = AfterStop(T.local)]
                      IN IF fault = "audit"
                         THEN audit' = audit /\ SetTask(t, Finish(S, "exception"))
                         ELSE /\ audit' = audit \cup StopAudit(t, S.local)
                              /\ SetTask(t, Finish(S, "success"))
              ELSE /\ fault = "none"
                   /\ Save(i, AfterStopError(T.local))
                   /\ SetTask(t, Finish([FailedCall(T, "stop_container") EXCEPT
                                            !.local = AfterStopError(T.local)],
                                        "Failed to stop container"))
                   /\ audit' = audit \cup StopFailureAudit(t, T.local)
                   /\ UNCHANGED cont
    /\ UNCHANGED <<nextId, vols, room, response, profile>>

stop_instance_task(t) == stop_load(t) \/ stop_engine(t, "none")

\* -------------------------------------------- tasks.py: restart_instance_task
\* Lines 178-181.
restart_load(t) ==
    LET T == tasks[t] IN
    /\ T.kind = "restart" /\ T.pc = "queued"
    /\ IF db[T.inst] = NoRow
       THEN SetTask(t, Finish(Load(T, NoRow, "queued"), "Instance not found"))
       ELSE IF NoContainerId(db[T.inst])
       THEN SetTask(t, Finish(Load(T, db[T.inst], "queued"), "No container ID found"))
       ELSE SetTask(t, Load(T, db[T.inst], "engine"))
    /\ UNCHANGED <<db, nextId, cont, vols, audit, faults, room, response, profile>>

\* The worker's copy when restart_container succeeded (lines 187-188).
AfterRestart(local) == [local EXCEPT !.status = "running", !.error_message = ""]
\* A failed restart that also forces the status to error.
RestartErrorForcesStatus(local) ==
    [local EXCEPT !.status = "error", !.error_message = "Failed to restart container"]
\* The worker's copy when restart_container failed (line 202).
AfterRestartError(local) == [local EXCEPT !.error_message = "Failed to restart container"]
\* The audit rows restart appends on success (lines 192-197).
RestartAudit(t, local) ==
    {AuditRow(t, local.user, "start", <<tasks[t].inst>>, None, "Restarted container")}

\* Lines 183-213, as stop_engine.
restart_engine(t, fault) ==
    LET T == tasks[t]
        i == T.inst
    IN
    /\ T.kind = "restart" /\ T.pc = "engine"
    /\ Faulty(fault # "none")
    /\ IF fault = "driver"
       THEN /\ SetTask(t, Finish(T, "exception"))
            /\ UNCHANGED <<db, cont, audit>>
       ELSE \E restarted \in BOOLEAN :
              IF restarted
              THEN /\ ~NotFound(cont[i] # "none")
                   /\ cont' = [cont EXCEPT ![i] = "running"]
                   /\ Save(i, AfterRestart(T.local))
                   /\ LET S == [Call(T, "restart_container") EXCEPT
                                   !.local = AfterRestart(T.local)]
                      IN IF fault = "audit"
                         THEN audit' = audit /\ SetTask(t, Finish(S, "exception"))
                         ELSE /\ audit' = audit \cup RestartAudit(t, S.local)
                              /\ SetTask(t, Finish(S, "success"))
              ELSE /\ fault = "none"
                   /\ Save(i, AfterRestartError(T.local))
                   /\ SetTask(t, Finish([FailedCall(T, "restart_container") EXCEPT
                                            !.local = AfterRestartError(T.local)],
                                        "Failed to restart container"))
                   /\ UNCHANGED <<cont, audit>>
    /\ UNCHANGED <<nextId, vols, room, response, profile>>

restart_instance_task(t) == restart_load(t) \/ restart_engine(t, "none")

\* --------------------------------------------- tasks.py: delete_instance_task
\* Lines 234-236.
delete_load(t) ==
    LET T == tasks[t] IN
    /\ T.kind = "delete" /\ T.pc = "queued"
    /\ IF db[T.inst] = NoRow
       THEN SetTask(t, Finish(Load(T, NoRow, "queued"), "Instance not found"))
       ELSE SetTask(t, Load(T, db[T.inst], "engine"))
    /\ UNCHANGED <<db, nextId, cont, vols, audit, faults, room, response, profile>>

\* Line 241: the container is deleted when the row has a container id.
DeletesContainer(local) == local.container_id # None
\* A volume test that ignores the caller's flag.
DeletesAnyVolume(local, delete_volume) == local.volume_name # None
\* Line 249: the volume is deleted when asked to and the row names one.
DeletesVolume(local, delete_volume) == delete_volume /\ local.volume_name # None

\* Lines 261-265: the detail of the delete audit row.
DeleteDetails(local, delete_volume) ==
    IF local.volume_name # None /\ ~delete_volume THEN "preserved volume"
    ELSE IF local.volume_name # None /\ delete_volume THEN "deleted volume"
    ELSE "no volume"

\* Lines 259-274: the audit rows delete appends; a failure of the user lookup
\* or of the write is swallowed.
DeleteAudit(t, T, recorded) ==
    IF recorded
    THEN {AuditRow(t, T.user_id, "delete", None, <<T.local.template>>,
                   DeleteDetails(T.local, T.delete_volume))}
    ELSE {}

\* AuditLog.instance is on_delete=SET_NULL (models.py line 113).
SetNull(rows, i) ==
    {IF r.instance = <<i>> THEN [r EXCEPT !.instance = None] ELSE r : r \in rows}

\* A delete that leaves the row in the table.
KeepRow(local) == local

\* instance.delete() (line 277): what is left of the row.
AfterDelete(local) == NoRow

\* A delete that gives up when the engine refused a removal.
AbortOnFailure(c1, v) == IF c1 /\ v THEN "success" ELSE "Failed to delete"
\* Lines 244-246, 253-254 and 280: the engine's refusals are logged and the
\* task returns success.
DeleteResult(c1, v) == "success"

\* The engine calls of the delete task and those that returned an error.
DeleteCalls(T, c1, v) ==
    [T EXCEPT
       !.calls = (IF DeletesContainer(T.local) THEN {"delete_container"} ELSE {})
                 \cup (IF DeletesVolume(T.local, T.delete_volume) THEN {"delete_volume"} ELSE {}),
       !.failed = (IF DeletesContainer(T.local) /\ ~c1 THEN {"delete_container"} ELSE {})
                  \cup (IF DeletesVolume(T.local, T.delete_volume) /\ ~v THEN {"delete_volume"} ELSE {})]

\* Lines 238-288 with the post_delete receiver of signals.py: container and
\* volume are removed best-effort (c1, v: the engine's answers; a missing
\* container or volume counts as removed), the audit row is written
\* best-effort, the row is deleted, and the receiver tries the container once
\* more (c2). fault = "driver": DockerManager() raises and the handler of line
\* 286 returns a failure; "audit": the user lookup or the audit write raises.
delete_engine(t, fault) ==
    LET T == tasks[t]
        i == T.inst
    IN
    /\ T.kind = "delete" /\ T.pc = "engine"
    /\ Faulty(fault # "none")
    /\ IF fault = "driver"
       THEN /\ SetTask(t, Finish(T, "exception"))
            /\ UNCHANGED <<db, cont, vols, audit>>
       ELSE \E c1 \in BOOLEAN, v \in BOOLEAN, c2 \in BOOLEAN :
              /\ (~DeletesContainer(T.local) \/ NotFound(cont[i] # "none")) => (c1 /\ c2)
              /\ (~DeletesVolume(T.local, T.delete_volume)
                    \/ NotFound(T.local.volume_name \in vols)) => v
              /\ cont' = IF DeletesContainer(T.local) /\ (c1 \/ c2)
                         THEN [cont EXCEPT ![i] = "none"] ELSE cont
              /\ vols' = IF DeletesVolume(T.local, T.delete_volume) /\ v
                         THEN vols \ {T.local.volume_name} ELSE vols
              /\ audit' = SetNull(audit \cup DeleteAudit(t, T, fault = "none"), i)
              /\ db' = [db EXCEPT ![i] = AfterDelete(T.local)]
              /\ SetTask(t, Finish(DeleteCalls(T, c1, v), DeleteResult(c1, v)))
    /\ UNCHANGED <<nextId, room, response, profile>>

delete_instance_task(t) == delete_load(t) \/ delete_engine(t, "none")

\* ----------------------------------------------- views.py: instance_status_api
\* DockerManager.get_container_status: the engine's status word, 'not_found'
\* for a missing container, 'error' on any other exception.
get_container_status(c, fault) ==
    IF fault THEN "error" ELSE IF c = "none" THEN "not_found" ELSE c

\* A mapping that takes a paused container for a running one.
PausedRuns(docker_status) ==
    CASE docker_status = "running" -> "running"
      [] docker_status = "exited" -> "stopped"
      [] docker_status = "created" -> "pending"
      [] docker_status = "restarting" -> "pending"
      [] docker_status = "paused" -> "running"
      [] OTHER -> "error"

\* status_map.get(docker_status, 'error') (lines 167-177).
status_map(docker_status) ==
    CASE docker_status = "running" -> "running"
      [] docker_status = "exited" -> "stopped"
      [] docker_status = "created" -> "pending"
      [] docker_status = "restarting" -> "pending"
      [] docker_status = "paused" -> "stopped"
      [] docker_status = "dead" -> "error"
      [] docker_status = "not_found" -> "error"
      [] OTHER -> "error"

\* A test of line 162 that lets every row through.
ReconcilesAny(row) == TRUE
\* Line 162: the rows the poll reconciles.
Reconciles(row) == row.container_id # None /\ row.status # "error"

\* instance_status_api: the stored status is replaced by the mapped engine
\* status when they differ.
instance_status_api(i, fault) ==
    LET mapped_status == status_map(get_container_status(cont[i], fault)) IN
    /\ db[i] # NoRow
    /\ Reconciles(db[i])
    /\ Faulty(fault)
    /\ db[i].status # mapped_status
    /\ Save(i, [db[i] EXCEPT !.status = mapped_status])
    /\ UNCHANGED <<nextId, cont, vols, audit, tasks, room, response, profile>>

\* The row after lines 162-180: the status replaced by the mapped engine status
\* when the row is reconciled and they differ.
Polled(row, c, fault) ==
    LET mapped_status == status_map(get_container_status(c, fault)) IN
    IF Reconciles(row) /\ row.status # mapped_status
    THEN [row EXCEPT !.status = mapped_status]
    ELSE row

\* instance_status_api with its answer (lines 159-186): get_object_or_404, the
\* reconciliation, and the JsonResponse built from the row. A failing status
\* read needs a row whose status is read.
status_request(i, fault) ==
    /\ db[i] # NoRow
    /\ fault => Reconciles(db[i])
    /\ Faulty(fault)
    /\ Save(i, Polled(db[i], cont[i], fault))
    /\ response' = [inst |-> i, status |-> Polled(db[i], cont[i], fault).status,
                     error_message |-> db[i].error_message]
    /\ UNCHANGED <<nextId, cont, vols, audit, tasks, room, profile>>

\* ------------------------------------------------------- specifications
Requests ==
    \/ \E u \in Users, tpl \in Templates : create_instance(u, tpl)
    \/ \E i \in Ids : stop_instance(i)
    \/ \E i \in Ids : restart_instance(i)
    \/ \E i \in Ids, dv \in BOOLEAN : delete_instance(i, dv)
    \/ \E i \in Ids : instance_status_api(i, FALSE)

TaskStep(t) ==
    \/ create_instance_task(t)
    \/ stop_instance_task(t)
    \/ restart_instance_task(t)
    \/ delete_instance_task(t)

\* The steps in which the environment raises an exception.
FaultStep(t) ==
    \/ create_volume_step(t, TRUE)
    \/ create_start(t, TRUE)
    \/ \E f \in {"driver", "audit"} : stop_engine(t, f)
    \/ \E f \in {"driver", "audit"} : restart_engine(t, f)
    \/ \E f \in {"driver", "audit"} : delete_engine(t, f)

\* Handlers and workers interleave freely; no exception is raised.
Next ==
    \/ Requests
    \/ \E t \in TaskIds : view_save_pending(t)
    \/ \E t \in TaskIds : TaskStep(t)

Spec == Init /\ [][Next]_vars

\* As Spec, with up to MaxFaults exceptions raised by the environment.
FaultInit == Start(MaxFaults, MaxTasks)

FaultNext ==
    \/ Next
    \/ \E t \in TaskIds : FaultStep(t)
    \/ \E i \in Ids : instance_status_api(i, TRUE)

FaultSpec == FaultInit /\ [][FaultNext]_vars

\* One operation at a time, in the order of the requests (a single worker
\* taking the queue first in, first out): a request handler runs to its end,
\* and a task runs from its load to its return, with nothing else in between.
InFlight(t) == tasks[t].pc \notin {"queued", "done"} \/ tasks[t].vpc # "done"
Quiet == \A t \in TaskIds : ~InFlight(t)
Alone(t) ==
    /\ tasks[t].vpc = "done"
    /\ \A u \in TaskIds \ {t} : ~InFlight(u)
    /\ \A u \in 1..(t - 1) : tasks[u].pc = "done"

SeqNext ==
    \/ Quiet /\ Requests
    \/ \E t \in TaskIds : view_save_pending(t)
    \/ \E t \in TaskIds : Alone(t) /\ TaskStep(t)

\* Sequential runs are few: they may enqueue one task more.
SeqInit == Start(0, MaxTasks + 1)

SeqSpec == SeqInit /\ [][SeqNext]_vars

\* Sequential runs long enough for create, stop, create, restart.
LongSeqInit == Start(0, MaxTasks + 2)

LongSeqSpec == LongSeqInit /\ [][SeqNext]_vars

\* Profile.max_instances is an IntegerField validated to be at least 1 that the
\* administrator sets per user: the limits small enough to be reached here.
Limits == 1..MaxInstances

\* No instance yet; the user's profile carries one of the small limits.
QuotaInit ==
    /\ db = [i \in Ids |-> NoRow]
    /\ nextId = 1
    /\ cont = [i \in Ids |-> "none"]
    /\ vols = {}
    /\ audit = {}
    /\ tasks = << >>
    /\ faults = 0
    /\ room = MaxTasks + 2
    /\ response = NoResponse
    /\ profile \in [Users -> [max_instances : Limits]]

\* The user's requests, one operation at a time, under a small limit.
QuotaSpec == QuotaInit /\ [][SeqNext]_vars

\* ----------------------------------------------------- admin.py: InstanceAdmin
\* STATUS_CHOICES (models.py lines 63-68).
STATUS_CHOICES == {"pending", "running", "stopped", "error"}

\* The bulk action mark_as_stopped: queryset.update(status='stopped').
mark_as_stopped(i) ==
    /\ db[i] # NoRow
    /\ db[i].status # "stopped"
    /\ db' = [db EXCEPT ![i].status = "stopped"]
    /\ UNCHANGED <<nextId, cont, vols, audit, tasks, faults, room, response, profile>>

\* The bulk action mark_as_error: queryset.update(status='error').
mark_as_error(i) ==
    /\ db[i] # NoRow
    /\ db[i].status # "error"
    /\ db' = [db EXCEPT ![i].status = "error"]
    /\ UNCHANGED <<nextId, cont, vols, audit, tasks, faults, room, response, profile>>

\* The change form: status is an editable field of the 'Basic Information'
\* fieldset (container_id and volume_name are read-only).
change_status(i, status) ==
    /\ db[i] # NoRow
    /\ db[i].status # status
    /\ db' = [db EXCEPT ![i].status = status]
    /\ UNCHANGED <<nextId, cont, vols, audit, tasks, faults, room, response, profile>>

AdminStep ==
    \/ \E i \in Ids : mark_as_stopped(i)
    \/ \E i \in Ids : mark_as_error(i)
    \/ \E i \in Ids, status \in STATUS_CHOICES : change_status(i, status)

\* Users and an administrator, one operation at a time.
AdminNext ==
    \/ SeqNext
    \/ Quiet /\ AdminStep

AdminSpec == Init /\ [][AdminNext]_vars

\* The status words of a container as the engine reports them, lower-cased.
DockerStatuses ==
    {"created", "restarting", "running", "removing", "paused", "exited", "dead"}

\* The rows instance i can be in once its create task has ended: with a
\* container id in any status, or without one when the create failed early.
PollRows(i) ==
    LET created == AfterStart(
                     AfterVolume(
                       AfterAllocate(NewInstance("alice", "jupyter"),
                                     Put(EmptyMap, "web",
                                         PORT_RANGE_START + ((i - 1) % RangeSize))),
                       VolumeName("alice", "jupyter", i)),
                     ContainerId(i))
    IN {[created EXCEPT
           !.status = st,
           !.error_message = IF st = "error" THEN "Docker API error" ELSE ""] :
        st \in STATUS_CHOICES}
       \cup {AfterValueError(NewInstance("alice", "jupyter"))}

\* Status requests alone, on instances whose containers are in any state the
\* engine can report (the engine changes it on its own: exit, pause, restart
\* policy, removal).
PollInit ==
    /\ db \in [Ids -> UNION {PollRows(i) : i \in Ids}]
    /\ \A i \in Ids : db[i] \in PollRows(i)
    /\ cont \in [Ids -> DockerStatuses \cup {"none"}]
    /\ \A i \in Ids : db[i].container_id = None => cont[i] = "none"
    /\ nextId = MaxInstances + 1
    /\ vols = {}
    /\ audit = {}
    /\ tasks = << >>
    /\ faults = MaxFaults
    /\ room = 0
    /\ response = NoResponse
    /\ profile = DefaultProfile

PollNext ==
    \/ \E i \in Ids : status_request(i, FALSE)
    \/ \E i \in Ids : status_request(i, TRUE)

PollSpec == PollInit /\ [][PollNext]_vars

\* The rows of PollRows that a stop, restart or delete request meets with the
\* engine out of step: the container running, exited or gone (removed behind
\* the application's back), the volume present or gone.
DriftRows(i) == {row \in PollRows(i) : row.status \in {"running", "stopped", "error"}}

\* One stop, restart or delete command on such instances.
DriftInit ==
    /\ db \in [Ids -> UNION {DriftRows(i) : i \in Ids}]
    /\ \A i \in Ids : db[i] \in DriftRows(i)
    /\ cont \in [Ids -> {"none", "running", "exited"}]
    /\ \A i \in Ids : db[i].container_id = None => cont[i] = "none"
    /\ vols \in SUBSET {db[i].volume_name : i \in {j \in Ids : db[j].volume_name # None}}
    /\ nextId = MaxInstances + 1
    /\ audit = {}
    /\ tasks = << >>
    /\ faults = 0
    /\ room = 1
    /\ response = NoResponse
    /\ profile = DefaultProfile

DriftNext ==
    \/ \E i \in Ids : stop_instance(i)
    \/ \E i \in Ids : restart_instance(i)
    \/ \E i \in Ids, dv \in BOOLEAN : delete_instance(i, dv)
    \/ \E t \in TaskIds : view_save_pending(t)
    \/ \E t \in TaskIds : stop_instance_task(t)
    \/ \E t \in TaskIds : restart_instance_task(t)
    \/ \E t \in TaskIds : delete_instance_task(t)

DriftSpec == DriftInit /\ [][DriftNext]_vars

\* The environments an instance can carry (Instance.environment_vars is a
\* field of the admin change form): maps over keys the template sets (B) and
\* does not set (C).
InstanceEnvs == UNION {[K -> {"3", "4"}] : K \in SUBSET {"B", "C"}}

\* One create command on a new instance of any template with any of these
\* environments: what the container is started with.
EnvInit ==
    /\ \E tpl \in Templates, env \in InstanceEnvs :
         db = [i \in Ids |->
                 IF i = 1
                 THEN [NewInstance("alice", tpl) EXCEPT !.environment_vars = env]
                 ELSE NoRow]
    /\ nextId = 2
    /\ cont = [i \in Ids |-> "none"]
    /\ vols = {}
    /\ audit = {}
    /\ tasks = <<NewTask("create", 1)>>
    /\ faults = 0
    /\ room = 1
    /\ response = NoResponse
    /\ profile = DefaultProfile

EnvNext == \E t \in TaskIds : create_instance_task(t)

EnvSpec == EnvInit /\ [][EnvNext]_vars

\* One create command and as many exceptions as exhaust its retries: what
\* becomes of a create that keeps failing.
RetryInit == Start(max_retries + 1, 1)

RetryNext ==
    \/ \E u \in Users, tpl \in Templates : create_instance(u, tpl)
    \/ \E t \in TaskIds : create_instance_task(t)
    \/ \E t \in TaskIds : create_volume_step(t, TRUE)
    \/ \E t \in TaskIds : create_start(t, TRUE)

RetrySpec == RetryInit /\ [][RetryNext]_vars

\* ------------------------------------------------------------- properties
CreateTasks == {t \in TaskIds : tasks[t].kind = "create"}
DeleteTasks == {t \in TaskIds : tasks[t].kind = "delete"}
\* The ports of the range that a held set leaves free.
FreePorts(held) == (PORT_RANGE_START..PORT_RANGE_END) \ held
\* The service names a create task asks ports for.
Requested(t) == default_ports(tasks[t].loaded.template)
Names(port_mapping) == {port_mapping[k] : k \in 1..Len(port_mapping)}
\* The audit rows task t wrote.
AuditBy(t) == {r \in audit : r.pk[1] = t}

\* C1: in every reachable state, any two distinct instances whose status is
\* pending or running have disjoint sets of assigned host ports.
C1_ActivePortsDisjoint ==
    \A i \in Ids, j \in Ids :
        (i # j /\ db[i].status \in Active /\ db[j].status \in Active)
        => Values(db[i].host_ports) \cap Values(db[j].host_ports) = {}

\* A create task between its allocation and its return.
Allocated(t) ==
    tasks[t].kind = "create" /\ tasks[t].alloc = "ok" /\ tasks[t].pc \in {"volume", "start"}

\* C2: two create operations running concurrently on different instances are
\* never assigned a common host port.
C2_ConcurrentCreatesDistinct ==
    \A t \in TaskIds, u \in TaskIds :
        (t # u /\ Allocated(t) /\ Allocated(u) /\ tasks[t].inst # tasks[u].inst)
        => Values(tasks[t].host_ports) \cap Values(tasks[u].host_ports) = {}

\* C3: a create that finds its instance already running is a no-op: the
\* worker changes no field of the row, allocates no ports, makes no engine
\* call and appends no audit row.
C3_CreateOnRunningNoOp ==
    \A t \in CreateTasks :
        (tasks[t].pc # "queued" /\ tasks[t].loaded.status = "running")
        => /\ tasks[t].local = tasks[t].loaded
           /\ tasks[t].alloc = ""
           /\ tasks[t].calls = {}
           /\ Cardinality({r \in AuditBy(t) : r.pk[2] = tasks[t].retries}) = 0

\* Two delete commands for the same instance that both returned.
BothDeleted(t, u) ==
    /\ t # u
    /\ tasks[t].inst = tasks[u].inst
    /\ tasks[t].pc = "done" /\ tasks[u].pc = "done"

\* C4: when delete is invoked twice in sequence on the same instance id and the
\* first invocation succeeded, the second makes no engine call, appends no
\* audit row and reports the instance as not found; at most one delete audit
\* row exists for the two.
C4_DeleteTwice ==
    \A t \in DeleteTasks, u \in DeleteTasks :
        (BothDeleted(t, u) /\ tasks[t].result = "success")
        => /\ tasks[u].result = "Instance not found"
           /\ tasks[u].calls = {} /\ tasks[u].failed = {}
           /\ AuditBy(u) = {}
           /\ Cardinality({r \in AuditBy(t) \cup AuditBy(u) : r.action = "delete"}) <= 1

\* The second of two deletes has found the row gone; the first wrote its row.
C4_Witness ==
    \E t \in DeleteTasks, u \in DeleteTasks :
        /\ BothDeleted(t, u)
        /\ tasks[t].result = "success" /\ "delete_container" \in tasks[t].calls
        /\ tasks[u].result = "Instance not found"
        /\ Cardinality(AuditBy(t)) = 1

\* C5: every port allocate_ports returns lies in the inclusive range
\* [PORT_RANGE_START, PORT_RANGE_END].
C5_PortsInRange ==
    \A t \in CreateTasks :
        \A p \in Values(tasks[t].host_ports) :
            PORT_RANGE_START <= p /\ p <= PORT_RANGE_END

\* Both ends of the range have been handed out in one call.
C5_Witness ==
    \E t \in CreateTasks :
        /\ tasks[t].alloc = "ok"
        /\ {PORT_RANGE_START, PORT_RANGE_END} \subseteq Values(tasks[t].host_ports)

\* The step in which create task t runs allocate_ports and handles its outcome.
Allocates(t) == tasks[t].kind = "create" /\ tasks[t].pc = "alloc" /\ tasks'[t].pc # "alloc"

\* C6: when fewer free ports remain than service names are requested,
\* allocate_ports raises ValueError and returns no mapping, and the
\* instance's host_ports stay as they were.
C6_ExhaustedRange ==
    [][\A t \in TaskIds :
         (Allocates(t) /\ Cardinality(FreePorts(tasks[t].used_ports)) < Len(Requested(t)))
         => /\ tasks'[t].alloc = "ValueError"
            /\ tasks'[t].host_ports = EmptyMap
            /\ tasks'[t].local.host_ports = tasks[t].loaded.host_ports
            /\ db'[tasks[t].inst].host_ports = tasks[t].loaded.host_ports]_vars

\* A request for two ports was refused with one port free.
C6_Witness ==
    \E t \in CreateTasks :
        /\ tasks[t].alloc = "ValueError"
        /\ Len(Requested(t)) = 2
        /\ Cardinality(FreePorts(tasks[t].used_ports)) = 1
        /\ db[tasks[t].inst].host_ports = EmptyMap

\* C7: when at least as many free ports remain as service names are requested,
\* allocate_ports succeeds with exactly one port per requested name, the ports
\* pairwise distinct and none of them in the held set it read.
C7_AllocateSucceeds ==
    \A t \in CreateTasks :
        (tasks[t].alloc # "" /\ Cardinality(FreePorts(tasks[t].used_ports)) >= Len(Requested(t)))
        => /\ tasks[t].alloc = "ok"
           /\ DOMAIN tasks[t].host_ports = Names(Requested(t))
           /\ Cardinality(Values(tasks[t].host_ports)) = Len(Requested(t))
           /\ Values(tasks[t].host_ports) \cap tasks[t].used_ports = {}

\* A call that read a held port was left exactly the ports it needed and got
\* them.
C7_Witness ==
    \E t \in CreateTasks :
        /\ tasks[t].alloc = "ok"
        /\ tasks[t].used_ports # {}
        /\ Cardinality(FreePorts(tasks[t].used_ports)) = Len(Requested(t))
        /\ Values(tasks[t].host_ports) = FreePorts(tasks[t].used_ports)

\* The step in which create task t gets a container id from start_container.
Starts(t) ==
    /\ tasks[t].kind = "create" /\ tasks[t].pc = "start"
    /\ "start_container" \in tasks'[t].calls \ tasks'[t].failed

\* The create audit rows that name instance i.
CreateAudits(rows, i) == {r \in rows : r.action = "create" /\ r.instance = <<i>>}

\* C8: when port allocation, volume creation (for a template with mounts) and
\* container start all succeed, create ends with the engine id stored on the
\* instance, status running, an empty error message and exactly one create
\* audit row appended for that instance.
C8_CreateSucceeds ==
    [][\A t \in TaskIds :
         Starts(t)
         => LET i == tasks[t].inst IN
            /\ tasks'[t].pc = "done" /\ tasks'[t].result = "success"
            /\ db'[i].container_id = ContainerId(i)
            /\ db'[i].status = "running"
            /\ db'[i].error_message = ""
            /\ Cardinality(audit' \ audit) = 1
            /\ audit' \ audit \subseteq CreateAudits(audit', i)
            /\ Cardinality(CreateAudits(audit', i)) = 1]_vars

\* A create of a template with mounts has returned success: the volume and the
\* container exist and the row is running.
C8_Witness ==
    \E t \in CreateTasks :
        /\ tasks[t].pc = "done" /\ tasks[t].result = "success"
        /\ tasks[t].calls = {"create_volume", "start_container"}
        /\ db[tasks[t].inst].status = "running"
        /\ db[tasks[t].inst].container_id # None
        /\ Cardinality(CreateAudits(audit, tasks[t].inst)) = 1

\* C9: when allocate_ports raises ValueError, create saves status error with a
\* message, makes no engine call, appends no audit row, returns failure and is
\* not retried.
C9_ExhaustedCreate ==
    [][\A t \in TaskIds :
         /\ (Allocates(t) /\ tasks'[t].alloc = "ValueError")
            => LET i == tasks[t].inst IN
               /\ db'[i].status = "error"
               /\ db'[i].error_message = "Port allocation failed"
               /\ tasks'[t].calls = {}
               /\ cont' = cont /\ vols' = vols /\ audit' = audit
               /\ tasks'[t].pc = "done" /\ tasks'[t].result = "ValueError"
               /\ tasks'[t].retries = tasks[t].retries
         /\ (tasks[t].kind = "create" /\ tasks[t].alloc = "ValueError")
            => tasks'[t] = tasks[t]]_vars

\* A create has returned the exhausted-range failure and its row is in error.
C9_Witness ==
    \E t \in CreateTasks :
        /\ tasks[t].pc = "done" /\ tasks[t].result = "ValueError"
        /\ tasks[t].used_ports # {}
        /\ db[tasks[t].inst].status = "error"
        /\ db[tasks[t].inst].container_id = None
        /\ AuditBy(t) = {}

\* The step in which create_volume fails for create task t.
VolumeFails(t) ==
    /\ tasks[t].kind = "create" /\ tasks[t].pc = "volume"
    /\ "create_volume" \in tasks'[t].failed

\* C10: when volume creation fails during create, the instance ends in status
\* error with the driver's message, start_container is never called (no
\* container exists, the engine id stays absent) and no create audit row is
\* recorded.
C10_VolumeFailure ==
    [][\A t \in TaskIds :
         /\ VolumeFails(t)
            => LET i == tasks[t].inst IN
               /\ db'[i].status = "error"
               /\ db'[i].error_message = "Volume creation failed"
               /\ db'[i].container_id = None
               /\ tasks'[t].pc = "done"
               /\ "start_container" \notin tasks'[t].calls
               /\ cont'[i] = "none"
               /\ CreateAudits(audit', i) = {}
         /\ (tasks[t].kind = "create" /\ "create_volume" \in tasks[t].failed)
            => /\ tasks'[t] = tasks[t]
               /\ cont'[tasks[t].inst] = "none"
               /\ CreateAudits(audit', tasks[t].inst) = {}]_vars

\* A create has returned after create_volume failed: the row is in error and
\* neither the volume nor a container exists.
C10_Witness ==
    \E t \in CreateTasks :
        /\ tasks[t].pc = "done" /\ "create_volume" \in tasks[t].failed
        /\ db[tasks[t].inst].status = "error"
        /\ db[tasks[t].inst].error_message = "Volume creation failed"
        /\ cont[tasks[t].inst] = "none"
        /\ vols = {}

\* C11: a create is re-attempted at most max_retries times, and a create
\* whose retries are exhausted has forced its instance to status error with a
\* retry-exhaustion message: it does not leave the instance pending.
C11_RetriesExhausted ==
    \A t \in CreateTasks :
        /\ tasks[t].retries <= max_retries
        /\ (tasks[t].pc = "done" /\ tasks[t].result = "raised")
           => /\ db[tasks[t].inst].status = "error"
              /\ db[tasks[t].inst].error_message = "Failed after retries"

\* The step in which a stop or restart task reads its row.
Loads(t, kind) ==
    /\ tasks[t].kind = kind /\ tasks[t].pc = "queued"
    /\ tasks'[t].pc # "queued"

\* C12: a stop on an instance without an engine id fails with the "no
\* container" error, makes no engine call, appends no audit row and changes
\* no field of the instance.
C12_StopWithoutContainer ==
    [][\A t \in TaskIds :
         (Loads(t, "stop") /\ db[tasks[t].inst] # NoRow
            /\ db[tasks[t].inst].container_id = None)
         => /\ tasks'[t].pc = "done"
            /\ tasks'[t].result = "No container ID found"
            /\ tasks'[t].calls = {}
            /\ db' = db /\ cont' = cont /\ vols' = vols /\ audit' = audit]_vars

\* A stop was accepted for a row marked running that never got a container,
\* and its task has returned the error.
C12_Witness ==
    \E t \in TaskIds :
        /\ tasks[t].kind = "stop" /\ tasks[t].pc = "done"
        /\ tasks[t].result = "No container ID found"
        /\ tasks[t].loaded.container_id = None
        /\ db[tasks[t].inst] = tasks[t].loaded
        /\ AuditBy(t) = {}

\* The step in which a stop or restart task gets the engine's answer.
Answers(t, kind) ==
    /\ tasks[t].kind = kind /\ tasks[t].pc = "engine"
    /\ tasks'[t].pc = "done"

\* The audit rows of one action that name instance i.
Audits(rows, action, i) == {r \in rows : r.action = action /\ r.instance = <<i>>}

\* C13: a stop on an instance with an engine id: when stop_container succeeds
\* the status becomes stopped and exactly one stop audit row is appended; when
\* it fails the status stays as the task found it, the error message is
\* recorded, no audit row is appended and the task returns failure.
C13_StopOutcome ==
    [][\A t \in TaskIds :
         Answers(t, "stop")
         => LET i == tasks[t].inst IN
            /\ "stop_container" \in tasks'[t].calls
            /\ ("stop_container" \notin tasks'[t].failed)
               => /\ db'[i].status = "stopped"
                  /\ Cardinality(audit' \ audit) = 1
                  /\ audit' \ audit \subseteq Audits(audit', "stop", i)
                  /\ tasks'[t].result = "success"
            /\ ("stop_container" \in tasks'[t].failed)
               => /\ db'[i].status = tasks[t].loaded.status
                  /\ db'[i].error_message = "Failed to stop container"
                  /\ audit' = audit
                  /\ tasks'[t].result = "Failed to stop container"]_vars

\* One stop has succeeded and been recorded; another, on a container that had
\* already stopped being there to stop, has failed and left its message.
C13_Witness ==
    \E t \in TaskIds :
        /\ tasks[t].kind = "stop" /\ tasks[t].pc = "done"
        /\ "stop_container" \in tasks[t].failed
        /\ db[tasks[t].inst].error_message = "Failed to stop container"
        /\ db[tasks[t].inst].status = tasks[t].loaded.status
        /\ AuditBy(t) = {}

\* C14: a restart on an instance with an engine id: when restart_container
\* succeeds the status becomes running, the error message is cleared and
\* exactly one start audit row is appended; when it fails the error message is
\* recorded, the status stays as the task found it (it is not set to error)
\* and no audit row is appended.
C14_RestartOutcome ==
    [][\A t \in TaskIds :
         Answers(t, "restart")
         => LET i == tasks[t].inst IN
            /\ "restart_container" \in tasks'[t].calls
            /\ ("restart_container" \notin tasks'[t].failed)
               => /\ db'[i].status = "running"
                  /\ db'[i].error_message = ""
                  /\ Cardinality(audit' \ audit) = 1
                  /\ audit' \ audit \subseteq Audits(audit', "start", i)
                  /\ tasks'[t].result = "success"
            /\ ("restart_container" \in tasks'[t].failed)
               => /\ db'[i].status = tasks[t].loaded.status
                  /\ db'[i].error_message = "Failed to restart container"
                  /\ audit' = audit
                  /\ tasks'[t].result = "Failed to restart container"]_vars

\* A restart has failed: its message is on the row, whose status is still the
\* one the task found.
C14_Witness ==
    \E t \in TaskIds :
        /\ tasks[t].kind = "restart" /\ tasks[t].pc = "done"
        /\ "restart_container" \in tasks[t].failed
        /\ db[tasks[t].inst].error_message = "Failed to restart container"
        /\ db[tasks[t].inst].status = tasks[t].loaded.status
        /\ AuditBy(t) = {}

\* The step in which a delete task, having read its row, removes it.
Removes(t) ==
    /\ tasks[t].kind = "delete" /\ tasks[t].pc = "engine"
    /\ tasks'[t].pc = "done"

\* C15: delete calls delete_container whenever the row has an engine id, and a
\* failure of that call or of the volume removal does not abort the deletion:
\* the row is removed and the task returns success.
C15_DeleteBestEffort ==
    [][\A t \in TaskIds :
         Removes(t)
         => /\ ("delete_container" \in tasks'[t].calls)
                 <=> (tasks[t].loaded.container_id # None)
            /\ db'[tasks[t].inst] = NoRow
            /\ tasks'[t].result = "success"]_vars

\* The engine refused to remove the container, and the row is gone all the
\* same.
C15_Witness ==
    \E t \in DeleteTasks :
        /\ tasks[t].pc = "done" /\ tasks[t].result = "success"
        /\ "delete_container" \in tasks[t].failed
        /\ db[tasks[t].inst] = NoRow

\* C16: delete calls delete_volume if and only if the caller asked for the
\* volume to be deleted and the row names a volume; with the flag at its
\* default (retain) a delete removes no volume.
C16_VolumeOnlyOnRequest ==
    [][\A t \in TaskIds :
         Removes(t)
         => /\ ("delete_volume" \in tasks'[t].calls)
                 <=> (tasks[t].delete_volume /\ tasks[t].loaded.volume_name # None)
            /\ ~tasks[t].delete_volume => vols' = vols]_vars

\* A delete with the default flag has removed a row that names a volume, and
\* the volume is still there.
C16_Witness ==
    \E t \in DeleteTasks :
        /\ tasks[t].pc = "done" /\ tasks[t].result = "success"
        /\ ~tasks[t].delete_volume
        /\ tasks[t].loaded.volume_name # None
        /\ tasks[t].loaded.volume_name \in vols
        /\ "delete_volume" \notin tasks[t].calls

\* C17: the delete audit row tells the volume's fate truthfully: it says
\* preserved when the delete left the volume intact, and says deleted only
\* when the volume was removed from the engine.
C17_TruthfulDetail ==
    [][\A t \in TaskIds :
         Removes(t)
         => \A r \in audit' \ audit :
              /\ r.details = "preserved volume" => vols' = vols
              /\ r.details = "deleted volume"
                   => tasks[t].loaded.volume_name \notin vols']_vars

\* The step in which task t made its engine calls, all of which succeeded, and
\* wrote no audit row.
AuditLost(t) ==
    /\ tasks[t].pc \in {"start", "engine"}
    /\ tasks'[t].pc # tasks[t].pc
    /\ tasks'[t].calls # {} /\ tasks'[t].failed = {}
    /\ {r \in audit' : r.pk = <<t, tasks[t].retries>>} = {}

\* C18: a failure to record the audit row does not change the outcome of the
\* operation around it: the task returns success, as it does when the row is
\* written, and is not run again.
C18_AuditFailureHarmless ==
    [][\A t \in TaskIds :
         AuditLost(t) => (tasks'[t].pc = "done" /\ tasks'[t].result = "success")]_vars

\* The step changes the status of instance i to error.
BecomesError(i) == db[i].status # "error" /\ db'[i].status = "error"
\* The step is one of a create task of instance i.
CreateStep(i) == \E t \in CreateTasks : tasks[t].inst = i /\ tasks'[t] # tasks[t]

\* C19: the status of an instance becomes error only in a step of its create
\* task: no stop, restart, delete or status poll sets it.
C19_ErrorOnlyFromCreate ==
    [][\A i \in Ids : BecomesError(i) => CreateStep(i)]_vars

\* C20: once the status of an instance is error it stays error until the row
\* is deleted: no stop, restart or status poll, newly requested or already in
\* flight, changes it.
C20_ErrorSticky ==
    [][\A i \in Ids :
         (db[i].status = "error" /\ ~CreateStep(i))
         => (db'[i] = NoRow \/ db'[i].status = "error")]_vars

\* C21: in every reachable state an instance has a non-empty error message
\* only if its status is error.
C21_MessageOnlyInError ==
    \A i \in Ids :
       (db[i] # NoRow /\ db[i].error_message # "") => db[i].status = "error"

\* The engine call whose success is the success point of a task, and the
\* action of the audit row written there.
SuccessCall(kind) ==
    CASE kind = "create" -> "start_container"
      [] kind = "stop" -> "stop_container"
      [] kind = "restart" -> "restart_container"
      [] OTHER -> "none"
AuditAction(kind) ==
    CASE kind = "create" -> "create"
      [] kind = "stop" -> "stop"
      [] kind = "restart" -> "start"
      [] OTHER -> "delete"
Succeeded(t) ==
    SuccessCall(tasks[t].kind) \in tasks[t].calls \ tasks[t].failed
LifecycleActions == {"create", "stop", "start"}

\* C22: a create, stop or start audit event exists for an instance only if the
\* corresponding engine call (start, stop, restart of the container) succeeded
\* for it, and the events of each kind are never more than those successful
\* engine calls.
C22_AuditOnlyOnSuccess ==
    /\ \A r \in audit :
         r.action \in LifecycleActions =>
           LET t == r.pk[1] IN
           /\ r.action = AuditAction(tasks[t].kind)
           /\ Succeeded(t)
           /\ r.instance \in {<<tasks[t].inst>>, None}
    /\ \A i \in Ids, a \in LifecycleActions :
         Cardinality({r \in audit : r.action = a /\ tasks[r.pk[1]].inst = i})
           <= Cardinality({t \in TaskIds : /\ tasks[t].inst = i
                                            /\ AuditAction(tasks[t].kind) = a
                                            /\ Succeeded(t)})
\* A create that was audited, and a stop that failed and left no audit row.
C22_Witness ==
    /\ \E r \in audit : r.action = "create"
    /\ \E t \in TaskIds :
         /\ tasks[t].kind = "stop" /\ tasks[t].pc = "done"
         /\ "stop_container" \in tasks[t].failed
         /\ AuditBy(t) = {}

\* The step of task t in which obtaining the driver raised: the task leaves the
\* point where it builds the driver without an engine call having returned.
DriverRaised(t) ==
    \/ /\ tasks[t].kind = "create" /\ tasks[t].pc = "volume"
       /\ (tasks'[t].pc = "queued" \/ tasks'[t].result = "raised")
    \/ /\ tasks[t].kind \in {"stop", "restart", "delete"} /\ tasks[t].pc = "engine"
       /\ tasks'[t].pc = "done" /\ tasks'[t].result = "exception"
       /\ tasks'[t].calls = {}

\* C23: no engine-level error crosses from the container driver into a
\* lifecycle operation as an exception: every use of the driver, obtaining it
\* included, yields a success value or a failure value.
C23_DriverNeverRaises ==
    [][\A t \in TaskIds : ~DriverRaised(t)]_vars

\* C24: no lifecycle operation lets a failure escape its boundary: create,
\* stop, restart and delete each end by returning a result (a missing record
\* gives 'Instance not found'); none raises to the worker.
C24_NothingEscapes ==
    \A t \in TaskIds :
       tasks[t].pc = "done" =>
          /\ tasks[t].result # "raised"
          /\ tasks[t].loaded = NoRow => tasks[t].result = "Instance not found"

\* The status request answered in this step was for instance i.
Polls(i) == response' # response /\ response'.inst = i
\* The engine status word the request of this step read for instance i.
WordRead(i) == get_container_status(cont[i], faults' # faults)
\* The mapping as the claim lists it.
ListedStatus(word) ==
    IF word = "running" THEN "running"
    ELSE IF word = "exited" THEN "stopped"
    ELSE IF word \in {"created", "restarting"} THEN "pending"
    ELSE IF word = "paused" THEN "stopped"
    ELSE "error"

\* C25: the engine-to-domain status mapping used by the status poll is total
\* and single-valued: running maps to running, exited to stopped, created and
\* restarting to pending, paused to stopped, dead and not_found to error, and
\* every other engine status value to error.
C25_StatusMapping ==
    [][\A i \in Ids :
         (Polls(i) /\ Reconciles(db[i]))
         => (db'[i].status = ListedStatus(WordRead(i))
             /\ response'.status = ListedStatus(WordRead(i)))]_vars
\* Requests have answered for a paused container (now stopped) while another
\* instance's word outside the list (removing) has been mapped to error.
C25_Witness ==
    \E i \in Ids :
       /\ response.inst = i /\ response.status = "stopped"
       /\ cont[i] = "paused" /\ db[i].status = "stopped"
       /\ \E j \in Ids \ {i} : cont[j] = "removing" /\ db[j].status = "error"

\* The frame of a status request on instance i: no audit row, no other row,
\* no field of the row other than status.
PollFrame(i) ==
    /\ audit' = audit
    /\ \A j \in Ids \ {i} : db'[j] = db[j]
    /\ db'[i] = [db[i] EXCEPT !.status = db'[i].status]
    /\ db[i].container_id = None => db'[i] = db[i]

Retained == {v \in vols : db[v[3]] = NoRow}

\* C27: a volume retained by delete is reused by a future instance of the
\* same user and template: the create of that later instance derives and
\* mounts the same volume name as the retained volume.
C27_RetainedVolumeReused ==
    \A v \in Retained : \A i \in Ids :
       (/\ \E d \in DeleteTasks, c \in CreateTasks :
             /\ tasks[d].inst = v[3] /\ tasks[d].result = "success"
             /\ tasks[c].inst = i /\ d < c
        /\ db[i] # NoRow
        /\ db[i].user = v[1] /\ db[i].template = v[2]
        /\ db[i].volume_name # None)
       => db[i].volume_name = v

\* The create tasks whose current attempt called start_container.
Started == {t \in CreateTasks : "start_container" \in tasks[t].calls}
\* The (volume, container path) bindings of a volumes argument.
Bindings(volumes) == {<<x, volumes[x].bind>> : x \in DOMAIN volumes}
\* The distinct container paths a template declares.
DeclaredPaths(tpl) == {mount_paths(tpl)[k] : k \in 1..Len(mount_paths(tpl))}

\* C28: when a volume name is given and the template declares mount paths,
\* start_container binds that single volume read-write at every declared
\* container path: k bindings for k distinct paths, one per path.
C28_BindsEveryPath ==
    \A t \in Started :
       LET volume_name == tasks[t].local.volume_name
           tpl == tasks[t].local.template
       IN (volume_name # None /\ DeclaredPaths(tpl) # {})
          => /\ Bindings(tasks[t].run.volumes)
                  = {<<volume_name, path>> : path \in DeclaredPaths(tpl)}
             /\ Cardinality(Bindings(tasks[t].run.volumes))
                  = Cardinality(DeclaredPaths(tpl))

\* C29: the environment merge of start_container is right-biased: the result
\* has every key of the template's and of the instance's environment, each
\* once, and for a key present in both the instance's value wins.
C29_MergeRightBiased ==
    \A t \in Started :
       LET template_env == template_environment_vars(tasks[t].local.template)
           instance_env == tasks[t].local.environment_vars
           merged == tasks[t].run.environment
       IN /\ {e[1] : e \in merged} = DOMAIN template_env \cup DOMAIN instance_env
          /\ \A e1 \in merged, e2 \in merged : e1[1] = e2[1] => e1 = e2
          /\ \A k \in DOMAIN instance_env : <<k, instance_env[k]>> \in merged
          /\ \A k \in DOMAIN template_env \ DOMAIN instance_env :
                <<k, template_env[k]>> \in merged
\* merge({A:1, B:2}, {B:3}) = {A:1, B:3} has been handed to the engine.
C29_Witness ==
    \E t \in Started :
       /\ template_environment_vars(tasks[t].local.template)
            = [k \in {"A", "B"} |-> IF k = "A" THEN "1" ELSE "2"]
       /\ tasks[t].local.environment_vars = [k \in {"B"} |-> "3"]
       /\ tasks[t].run.environment = {<<"A", "1">>, <<"B", "3">>}

\* The ports listed on instances whose status is pending or running.
HeldPorts ==
    {p \in PORT_RANGE_START..PORT_RANGE_END :
       \E i \in Ids : /\ db[i].status \in {"pending", "running"}
                       /\ p \in Values(db[i].host_ports)}
\* The step in which create task t reads the held set for its allocation.
ReadsHeld(t) ==
    tasks[t].kind = "create" /\ tasks[t].pc = "ports" /\ tasks'[t].pc = "alloc"

\* C30: the held set used by allocation and by the availability check is
\* exactly the set of host ports of the instances whose status is pending or
\* running: a port listed only on stopped, error or removed instances is free.
C30_HeldIsActivePorts ==
    [][/\ \A t \in TaskIds : ReadsHeld(t) => tasks'[t].used_ports = HeldPorts
       /\ \A count \in 0..(RangeSize + 1) :
            check_port_availability(count)
              <=> (Cardinality(FreePorts(HeldPorts)) >= count)]_vars
\* A port listed on a stopped instance has been handed to a new instance, whose
\* create read a held set without it.
C30_Witness ==
    \E i \in Ids, t \in CreateTasks :
       /\ db[i].status = "stopped"
       /\ tasks[t].inst # i /\ tasks[t].alloc = "ok"
       /\ Values(tasks[t].host_ports) \cap Values(db[i].host_ports) # {}
       /\ Values(db[i].host_ports) \cap tasks[t].used_ports = {}
       /\ db[tasks[t].inst].status \in {"pending", "running"}

\* The step in which task t of the given kind makes its engine calls.
EngineStep(t, kind) ==
    tasks[t].kind = kind /\ tasks[t].pc = "engine" /\ tasks'[t].pc = "done"
Reported(t, call) == call \in tasks'[t].calls
ReportedFailure(t, call) == call \in tasks'[t].failed

\* C31: the driver classifies a missing target by operation: delete_container
\* and delete_volume report success when the container or volume is not
\* found, stop_container and restart_container report failure with a message.
C31_MissingTarget ==
    [][\A t \in TaskIds :
         LET i == tasks[t].inst IN
         /\ (EngineStep(t, "delete") /\ Reported(t, "delete_container")
               /\ cont[i] = "none")
              => ~ReportedFailure(t, "delete_container")
         /\ (EngineStep(t, "delete") /\ Reported(t, "delete_volume")
               /\ tasks[t].local.volume_name \notin vols)
              => ~ReportedFailure(t, "delete_volume")
         /\ (EngineStep(t, "stop") /\ cont[i] = "none")
              => (ReportedFailure(t, "stop_container")
                  /\ tasks'[t].result = "Failed to stop container")
         /\ (EngineStep(t, "restart") /\ cont[i] = "none")
              => (ReportedFailure(t, "restart_container")
                  /\ tasks'[t].result = "Failed to restart container")]_vars
\* A stop has failed on a missing container, and the row recorded the message.
C31_Witness ==
    \E t \in TaskIds :
       /\ tasks[t].kind = "stop" /\ tasks[t].pc = "done"
       /\ "stop_container" \in tasks[t].failed
       /\ cont[tasks[t].inst] = "none"
       /\ db[tasks[t].inst].error_message = "Failed to stop container"

\* The create tasks that failed after their ports were saved: at the volume
\* or at the start of the container.
FailedLate ==
    {t \in CreateTasks :
       /\ tasks[t].pc = "done"
       /\ tasks[t].result \in {"Volume creation failed", "Docker API error"}}

\* C32: when create fails at volume creation or at container start nothing
\* is rolled back: the host ports saved after allocation (and a volume name
\* already stored) stay on the row until it is deleted, while, the status
\* being error, the row no longer makes those ports held.
C32_NoRollback ==
    \A t \in FailedLate :
       LET i == tasks[t].inst IN
       db[i] # NoRow =>
          /\ db[i].status = "error"
          /\ tasks[t].host_ports # EmptyMap
          /\ db[i].host_ports = tasks[t].host_ports
          /\ db[i].volume_name = tasks[t].local.volume_name
          /\ \A p \in Values(db[i].host_ports) :
                p \in get_used_ports
                  => \E j \in Ids \ {i} : /\ db[j].status \in Active
                                            /\ p \in Values(db[j].host_ports)
\* A create failed at the start of its container with a volume stored; its
\* port is still on the row and has been handed to another instance since.
C32_Witness ==
    \E t \in FailedLate, u \in CreateTasks :
       LET i == tasks[t].inst IN
       /\ tasks[t].result = "Docker API error"
       /\ db[i] # NoRow /\ db[i].volume_name # None
       /\ u # t /\ tasks[u].alloc = "ok"
       /\ Values(tasks[u].host_ports) \cap Values(db[i].host_ports) # {}
       /\ Values(db[i].host_ports) \cap tasks[u].used_ports = {}

\* The instances a restart task has restarted.
Restarted ==
    {tasks[t].inst : t \in {u \in TaskIds : /\ tasks[u].kind = "restart"
                                              /\ tasks[u].result = "success"}}

\* C33: one operation at a time, stopping instance A, creating instance B and
\* then restarting A never leaves A and B both pending or running with a
\* common host port.
C33_RestartKeepsPortsApart ==
    \A a \in Restarted : \A b \in Ids \ {a} :
       (db[a].status \in Active /\ db[b].status \in Active)
       => Values(db[a].host_ports) \cap Values(db[b].host_ports) = {}

\* Task t is the last command on its instance, and it and its request handler
\* have finished.
LastAndFinished(t) ==
    /\ tasks[t].pc = "done" /\ tasks[t].vpc = "done"
    /\ \A u \in TaskIds : tasks[u].inst = tasks[t].inst => u <= t
\* The status a successful task of this kind writes.
FinalStatus(kind) == IF kind = "stop" THEN "stopped" ELSE "running"

\* C34: after a stop (or restart) request is accepted and its engine call
\* succeeds, the stored status ends as stopped (resp. running) in every
\* interleaving: the handler's write of pending, issued after the task was
\* enqueued, never overwrites the status the completed task wrote.
C34_PendingNeverOverwrites ==
    \A t \in TaskIds :
       (/\ tasks[t].kind \in {"stop", "restart"}
        /\ tasks[t].result = "success"
        /\ LastAndFinished(t))
       => db[tasks[t].inst].status = FinalStatus(tasks[t].kind)

\* C35: every accepted stop or restart request takes the instance out of
\* pending without a status poll: once its task has finished, by success, by
\* engine failure or by the missing-engine-id check, the status of the
\* instance is running, stopped or error, not pending.
C35_LeavesPending ==
    \A t \in TaskIds :
       (/\ tasks[t].kind \in {"stop", "restart"}
        /\ LastAndFinished(t)
        /\ db[tasks[t].inst] # NoRow)
       => db[tasks[t].inst].status \in {"running", "stopped", "error"}

\* Every command on instance i and its request handler have finished.
AllFinished(i) ==
    \A t \in TaskIds :
       tasks[t].inst = i => (tasks[t].pc = "done" /\ tasks[t].vpc = "done")

\* C36: whatever lifecycle operation is in flight on an instance when its
\* delete is requested (in particular a create that has not yet started the
\* container), once all operations on the instance have finished the row is
\* absent and no container started for the instance remains in the engine,
\* unless the engine reported a delete failure.
C36_DeleteWins ==
    \A d \in DeleteTasks :
       LET i == tasks[d].inst IN
       (/\ AllFinished(i)
        /\ tasks[d].result = "success"
        /\ tasks[d].failed = {})
       => (db[i] = NoRow /\ cont[i] = "none")

\* Every running or stopped instance has a recorded engine id.
HasEngineId ==
    \A i \in Ids : db[i].status \in {"running", "stopped"} => db[i].container_id # None
\* The step in which a create task's start_container succeeded for instance i.
StartSucceeds(i) ==
    \E t \in CreateTasks :
       /\ tasks[t].inst = i /\ tasks[t].pc = "start"
       /\ "start_container" \in tasks'[t].calls \ tasks'[t].failed

\* C37: in every reachable state an instance whose status is running or
\* stopped has a recorded engine id, and an engine id is recorded on an
\* instance only by a create whose start of the container succeeded; stop,
\* restart, delete and the status poll never set or clear it.
C37_EngineId ==
    [][/\ HasEngineId /\ HasEngineId'
       /\ \A i \in Ids :
            /\ (/\ db'[i] # NoRow /\ db'[i].container_id # None
                /\ (db[i] = NoRow \/ db[i].container_id # db'[i].container_id))
               => StartSucceeds(i)
            /\ (/\ db[i] # NoRow /\ db[i].container_id # None /\ db'[i] # NoRow)
               => db'[i].container_id = db[i].container_id]_vars

\* The user's instances that count against the limit.
ActiveOf(u) == {i \in Ids : db[i].status \in Active /\ db[i].user = u}

\* C38: in every reachable state the number of a user's instances in status
\* pending or running does not exceed that user's max_instances limit, for any
\* sequence of create, stop, restart and delete requests by that user.
C38_WithinLimit ==
    \A u \in Users : Cardinality(ActiveOf(u)) <= profile[u].max_instances

====
